---- MODULE Spec2Model ----
(***************************************************************************)
(* A model of the Semantic Scholar identity resolver of the NIME           *)
(* Proceedings Analyzer (pa_request.request_scholar) and of the persisted  *)
(* cache it reads and writes.                                              *)
(*                                                                         *)
(* Python strings are sequences of one-character strings, so that the      *)
(* regular expressions, str.split, str.lower, str.find and the f-string    *)
(* concatenations of the source are computed and not assumed.  The token   *)
(* "e_acute" stands for the single non-ASCII character U+00E9.             *)
(***************************************************************************)
EXTENDS Integers, Sequences, FiniteSets, TLC

(***************************************************************************)
(* Bounds of the model.                                                    *)
(***************************************************************************)
\* number of request_scholar calls in one behaviour
MaxCalls == 2

(***************************************************************************)
(* Characters and strings.                                                 *)
(***************************************************************************)
LowerLetters == {"a", "b", "c", "d", "e", "g", "h", "i", "j", "k", "l", "m", "n",
                 "o", "p", "r", "t", "w"}
UpperLetters == {"A", "G", "J", "K", "L", "M", "N", "P", "T"}
Digits == {"0", "1", "2", "5"}

\* str.lower on one character
LowerChar(c) ==
    CASE c = "A" -> "a" [] c = "G" -> "g" [] c = "J" -> "j" [] c = "K" -> "k"
      [] c = "L" -> "l" [] c = "M" -> "m" [] c = "N" -> "n" [] c = "P" -> "p"
      [] c = "T" -> "t" [] OTHER -> c

\* unidecode.unidecode on one character: the ASCII transliteration
UnidecodeChar(c) == IF c = "e_acute" THEN "e" ELSE c

\* str.lower and unidecode.unidecode, character by character
Lower(s) == [i \in 1..Len(s) |-> LowerChar(s[i])]
Unidecode(s) == [i \in 1..Len(s) |-> UnidecodeChar(s[i])]

\* regextitle = [^a-zA-Z0-9 ] : the characters the substitution keeps
TitleChar(c) == c \in LowerLetters \cup UpperLetters \cup Digits \cup {" "}
\* regexname = [^a-zA-Z- ] : the characters the substitution keeps
NameChar(c) == c \in LowerLetters \cup UpperLetters \cup {"-", " "}

RegexTitleSub(s) == SelectSeq(s, TitleChar)
RegexNameSub(s) == SelectSeq(s, NameChar)

\* str.split(sep): the pieces between the occurrences of sep, empty pieces kept
RECURSIVE SplitOn(_, _)
SplitOn(s, sep) ==
    IF \A i \in 1..Len(s) : s[i] # sep
    THEN <<s>>
    ELSE LET i == CHOOSE j \in 1..Len(s) :
                      s[j] = sep /\ \A k \in 1..(j - 1) : s[k] # sep
         IN  <<SubSeq(s, 1, i - 1)>> \o SplitOn(SubSeq(s, i + 1, Len(s)), sep)

NonEmpty(w) == Len(w) > 0
LongWord(w) == Len(w) > 1

\* str.split(): split on white space, empty pieces dropped
SplitWords(s) == SelectSeq(SplitOn(s, " "), NonEmpty)

\* ' '.join(words)
RECURSIVE JoinSpace(_)
JoinSpace(ws) ==
    IF Len(ws) = 0 THEN <<>>
    ELSE IF Len(ws) = 1 THEN ws[1]
    ELSE ws[1] \o <<" ">> \o JoinSpace(Tail(ws))

Last(s) == s[Len(s)]

\* haystack.find(needle) != -1
Contains(hay, needle) ==
    \E i \in 0..(Len(hay) - Len(needle)) :
        \A j \in 1..Len(needle) : hay[i + j] = needle[j]

\* list(dict.fromkeys(xs)): duplicates dropped, first occurrences kept in order
RECURSIVE Dedup(_)
Dedup(xs) ==
    IF Len(xs) = 0 THEN <<>>
    ELSE LET init == Dedup(SubSeq(xs, 1, Len(xs) - 1))
             x == xs[Len(xs)]
         IN  IF \E i \in 1..Len(init) : init[i] = x THEN init ELSE Append(init, x)

\* f'{a} {b} {c}'
Fmt3(a, b, c) == a \o <<" ">> \o b \o <<" ">> \o c

NA == <<"N", "/", "A">>

\* an int field that may still hold the string 'N/A'
NANum == [na |-> TRUE, n |-> 0]
Num(k) == [na |-> FALSE, n |-> k]

(***************************************************************************)
(* The inputs: the publications of the BibTeX database, the command line   *)
(* and what the two Semantic Scholar endpoints may answer.                 *)
(***************************************************************************)
Str_Now == <<"N", "o", "w">>
Str_GarthPaine == <<"G", "a", "r", "t", "h", "P", "a", "i", "n", "e">>

\* pub['title'], pub['author names'] (first, last), pub['year'], pub['age'];
\* the last name of the author of the third is empty
PubPool ==
    << [title |-> <<"A", " ", "b", "e_acute", "-", "d">>,
        names |-> << << <<"J">>, <<"d", "e", " ", "L", "e", "e">> >>,
                     << <<"A">>, <<"M", "o", "-", "N", "g">> >> >>,
        year |-> <<"2", "0", "0", "5">>, age |-> 1],
       [title |-> Str_Now,
        names |-> << << <<"G">>, <<"P", "a", "i", "n", "e">> >> >>,
        year |-> <<"2", "0", "0", "1">>, age |-> 0],
       [title |-> <<"X", "y">>,
        names |-> << << <<"Q">>, <<>> >> >>,
        year |-> <<"2", "0", "1", "0">>, age |-> 2] >>

PubIds == 1..Len(PubPool)

\* the publications of a run: the first two, or the third
MainCorpus == {1, 2}
EmptySurnameCorpus == {3}

\* --sleep: its default, in milliseconds
DefaultSleepMs == 3000

\* time.sleep(0.06), in milliseconds
NoKeyDelayMs == 60

\* the values of --sleep: the default and 0.01 s
SleepChoices == {DefaultSleepMs, 10}

\* the parsed command line, as far as request_scholar is concerned
ArgSet == [nime : BOOLEAN, sskey : {<<>>, <<"k">>}, sleep : SleepChoices,
           citations : BOOLEAN]

\* no option given
DefaultArgs == [nime |-> FALSE, sskey |-> <<>>, sleep |-> DefaultSleepMs,
                citations |-> FALSE]

\* the command lines of the runs: no option, --nime, --sskey k,
\* --sskey k --sleep 0.01, --citations
CommandLines ==
    { DefaultArgs,
      [DefaultArgs EXCEPT !.nime = TRUE],
      [DefaultArgs EXCEPT !.sskey = <<"k">>],
      [DefaultArgs EXCEPT !.sskey = <<"k">>, !.sleep = 10],
      [DefaultArgs EXCEPT !.citations = TRUE] }

\* a delay that does not read --sleep
DelayWithoutSleep(a) == NoKeyDelayMs

\* the time.sleep of scholar_api_paper_search and scholar_api_paper_lookup,
\* which runs when requests.get(...).json() has returned
Delay(a) == IF a.sskey # <<>> THEN a.sleep ELSE NoKeyDelayMs

PaperIds == {<<"p", "1">>, <<"p", "2">>}

Au(name, id) == [name |-> name, authorId |-> id]
Au_Lee == Au(<<"J", ".", " ", "d", "e", " ", "L", "e", "e">>, <<"a", "1">>)
Au_Ng == Au(<<"A", ".", " ", "N", "g">>, <<"a", "2">>)
Au_Mo == Au(<<"K", ".", " ", "M", "o">>, <<"a", "5">>)
Au_Paine == Au(<<"G", "a", "r", "t", "h", " ", "P", "a", "i", "n", "e">>, <<"a", "0">>)

\* the author lists of the top record of a search answer
AuthorLists == { <<Au_Lee, Au_Ng, Au_Mo>>, <<Au_Lee, Au_Ng, Au_Mo, Au_Paine>>,
                 <<Au_Paine>> }

\* the citation count and the influential citation count of a paper that has them
CitationCount(p) == IF p = <<"p", "1">> THEN 3 ELSE 0
InfluentialCitationCount(p) == IF p = <<"p", "1">> THEN 1 ELSE 0

\* data[0] of a search answer; citationCount and influentialCitationCount are
\* keys of it only when hasCit
SearchRecords ==
    { [paperId |-> p, title |-> <<"T">> \o p, authors |-> al, hasCit |-> h,
       citationCount |-> IF h THEN CitationCount(p) ELSE 0,
       influentialCitationCount |-> IF h THEN InfluentialCitationCount(p) ELSE 0] :
         p \in PaperIds, al \in AuthorLists, h \in BOOLEAN }

NoRecord == [paperId |-> <<>>, title |-> <<>>, authors |-> <<>>, hasCit |-> FALSE,
             citationCount |-> 0, influentialCitationCount |-> 0]

\* what requests.get(...).json() does in scholar_api_paper_search:
\* raise, answer {'error': ...}, answer without (or with empty) 'data', or answer
\* with a top record
SearchResponses ==
    { [kind |-> k, rec |-> NoRecord] : k \in {"exception", "error", "nodata"} }
      \cup { [kind |-> "data", rec |-> r] : r \in SearchRecords }

\* the optional keys of a paper lookup answer
OptFields == {"embedding", "tldr", "s2FieldsOfStudy", "publicationTypes",
              "publicationVenue", "citations", "references"}

\* the key sets of the lookup answers the model lets the endpoint give
LookupFieldSets ==
    { {}, OptFields, OptFields \ {"publicationVenue"}, {"citations", "references"} }

\* a lookup answer: an error answer {'message': ...}, or the keys `fields` of
\* paper `id` (the value of a key is a function of the paper, see FieldValue)
Payload(m, f, p) == [message |-> m, fields |-> f, id |-> p]
EmptyDict == Payload(FALSE, {}, <<>>)

\* the value a lookup answer of paper p holds under key f; paper p2 has an empty
\* citation list and an empty reference list
FieldValue(p, f) ==
    IF f \in {"citations", "references"} /\ p = <<"p", "2">>
    THEN <<>>
    ELSE << <<f>> \o p >>

\* what requests.get(...).json() does in scholar_api_paper_lookup for paper p
LookupResponses(p) ==
    { [kind |-> "exception", payload |-> EmptyDict],
      [kind |-> "answer", payload |-> Payload(TRUE, {}, <<>>)] }
      \cup { [kind |-> "answer", payload |-> Payload(FALSE, f, p)] : f \in LookupFieldSets }

\* bool(lookup_result): a dict is true when it has a key (an answer of a paper
\* always has 'paperId')
Truthy(lr) == lr.message \/ lr.fields # {} \/ lr.id # <<>>

(***************************************************************************)
(* The pure part of request_scholar.                                       *)
(***************************************************************************)
\* author_last_list
AuthorLastList(p, a) ==
    LET lasts == [i \in 1..Len(p.names) |-> Last(SplitOn(p.names[i][2], "-"))]
    IN  IF a.nime /\ Unidecode(p.title) = Str_Now
        THEN [lasts EXCEPT ![1] = Str_GarthPaine]
        ELSE lasts

QueryTitle(p) ==
    LET title == Unidecode(p.title)
    IN  Dedup(<< title, RegexTitleSub(title),
                 JoinSpace(SelectSeq(SplitWords(title), LongWord)) >>)

QueryName(p, a) ==
    LET all == AuthorLastList(p, a)
    IN  IF Len(all) > 1 THEN << JoinSpace(all), all[1], <<>> >> ELSE << all[1], <<>> >>

QueryYear(p) == << <<>>, p.year >>

\* the year variants in the wrong order
ProductYearFirst(ts, ns, ys) ==
    [k \in 1..(Len(ts) * Len(ns) * Len(ys)) |->
        << ts[((k - 1) \div (Len(ns) * Len(ys))) + 1],
           ns[(((k - 1) \div Len(ys)) % Len(ns)) + 1],
           ys[Len(ys) - ((k - 1) % Len(ys))] >>]

\* list(itertools.product(ts, ns, ys)): the last axis varies fastest
Product(ts, ns, ys) ==
    [k \in 1..(Len(ts) * Len(ns) * Len(ys)) |->
        << ts[((k - 1) \div (Len(ns) * Len(ys))) + 1],
           ns[(((k - 1) \div Len(ys)) % Len(ns)) + 1],
           ys[((k - 1) % Len(ys)) + 1] >>]

Queries(p, a) == Product(QueryTitle(p), QueryName(p, a), QueryYear(p))

\* scholar_query of a candidate
ScholarQuery(c) == Fmt3(c[1], c[2], c[3])

\* full_query: the cache key
FullQuery(p, a) ==
    Fmt3(Unidecode(p.title), JoinSpace(AuthorLastList(p, a)), p.year)

\* the accepted answer stored under the query that found it
StoreKeyOfCandidate(full_query, scholar_query) == scholar_query

\* scholar_cache[full_query] = query_result: the key of the store, where
\* scholar_query is the candidate that was accepted
StoreKey(full_query, scholar_query) == full_query

\* result_author, query_author and the find
AuthorMatches(rec, lastList) ==
    LET result_author ==
            Lower(RegexNameSub(Unidecode(
                JoinSpace([i \in 1..Len(rec.authors) |-> rec.authors[i].name]))))
        query_author == RegexNameSub(Last(SplitOn(Lower(lastList[1]), " ")))
    IN  Contains(result_author, query_author)

\* the acceptance test the specification words: author count and surname only
AcceptsIgnoringCitationCount(resp, last_iter, lastList) ==
    /\ resp.kind = "data"
    /\ Len(resp.rec.authors) <= Len(lastList) + 1
    /\ AuthorMatches(resp.rec, lastList)

\* the conditions under which the loop body reaches the assignments
Accepts(resp, last_iter, lastList) ==
    /\ resp.kind = "data"
    /\ (resp.rec.hasCit \/ last_iter)
    /\ Len(resp.rec.authors) <= Len(lastList) + 1
    /\ AuthorMatches(resp.rec, lastList)

(***************************************************************************)
(* The cache: scholar_cache, a dict from a composite query key or a paper  *)
(* id to what was stored under it, and ./cache/json/scholar_cache.json.    *)
(***************************************************************************)
\* the three shapes of a cached value: the string 'N/A', a search answer
\* (its data[0]) and a lookup answer
NAEntry == [kind |-> "NA", rec |-> NoRecord, payload |-> EmptyDict]
SearchEntry(r) == [kind |-> "search", rec |-> r, payload |-> EmptyDict]
LookupEntry(l) == [kind |-> "lookup", rec |-> NoRecord, payload |-> l]

EmptyCache == <<>>

\* scholar_cache[k] = v
CachePut(c, k, v) == [kk \in (DOMAIN c) \cup {k} |-> IF kk = k THEN v ELSE c[kk]]

\* the cache file: absent, holding a JSON object, or holding what orjson cannot parse
AbsentFile == [state |-> "absent", data |-> EmptyCache]
CorruptFile == [state |-> "corrupt", data |-> EmptyCache]
OkFile(c) == [state |-> "ok", data |-> c]

\* a call that forgets to write the file
WriteCacheSkipped(file, c) == file

\* with open(..., 'wb') as fp: fp.write(orjson.dumps(scholar_cache))
WriteCache(file, c) == OkFile(c)

\* a search call outside every try statement
SearchEscapesUncaught(resp) == resp.kind = "exception"

\* try: scholar_api_paper_search(...) except Exception: no exception of the
\* search call leaves the try statement
SearchEscapes(resp) == FALSE

\* query_result after the try statement
QueryResult(resp) == IF resp.kind = "exception" THEN [kind |-> "nodata", rec |-> NoRecord] ELSE resp

\* the lookup call is outside every try statement
LookupEscapes(resp) == resp.kind = "exception"

\* a lookup answer stored whatever its keys
LookupStoredAlways(l) == TRUE

\* if 'message' not in lookup_result: the answer is stored under the paper id
LookupStored(l) == ~l.message

\* a sentinel written on exhaustion
ExhaustedCacheWithSentinel(c, key) == CachePut(c, key, NAEntry)

\* after the loop, when nothing was accepted: the assignment of the sentinel
\* is commented out
ExhaustedCache(c, key) == c

\* a hit test that takes the sentinel for a miss
CacheHitUnlessSentinel(key, c) == key \in DOMAIN c /\ c[key].kind # "NA"

\* not (full_query not in scholar_cache)
CacheHit(key, c) == key \in DOMAIN c

\* scholar_cache[pub['scholar paper id']] in the cache-hit branch raises KeyError
HitDetailMissing(id, c) == id \notin DOMAIN c

(***************************************************************************)
(* The publication record as request_scholar leaves it.                    *)
(***************************************************************************)
NoYearly == [set |-> FALSE, na |-> FALSE, num |-> 0, den |-> 1]

\* the 'scholar ...' keys set before the query lists are made, and 'age'
InitFields(p, a) ==
    [query |-> FullQuery(p, a),
     cit |-> NANum, infl |-> NANum, refcount |-> NANum,
     paperId |-> NA, stitle |-> NA,
     authorsId |-> [i \in 1..Len(p.names) |-> NA],
     embedding |-> <<>>, tldr |-> <<>>, fos |-> <<>>, venue |-> <<>>, ptype |-> <<>>,
     references |-> <<>>, citations |-> <<>>, valid |-> FALSE,
     age |-> p.age, yearly |-> NoYearly]

\* the five assignments from data[0], of the loop body and of the cache-hit branch
SetIdentity(pb, rec) ==
    [pb EXCEPT !.cit = Num(rec.citationCount),
               !.infl = Num(rec.influentialCitationCount),
               !.paperId = rec.paperId,
               !.stitle = rec.title,
               !.authorsId = [i \in 1..Len(rec.authors) |-> rec.authors[i].authorId]]

\* if key in d: pub[field] = d[key]
Copy(pb, l, key, old) == IF key \in l.fields THEN FieldValue(l.id, key) ELSE old

\* 'citations' and 'references' of a detail answer, with the count and the flag
SetLists(pb, l) ==
    LET refs == FieldValue(l.id, "references")
    IN  [pb EXCEPT !.citations = Copy(pb, l, "citations", @),
                   !.references = Copy(pb, l, "references", @),
                   !.refcount = IF "references" \in l.fields THEN Num(Len(refs)) ELSE @,
                   !.valid = IF "references" \in l.fields /\ Len(refs) > 0 THEN TRUE ELSE @]

\* the cache-hit branch's copies from the cached detail entry
SetFromCachedDetail(pb, l) ==
    SetLists([pb EXCEPT !.embedding = Copy(pb, l, "embedding", @),
                        !.tldr = Copy(pb, l, "tldr", @)], l)

\* the average citations per year of age
Yearly(pb) ==
    IF ~pb.cit.na
    THEN LET age == IF pb.age = 0 THEN 1 ELSE pb.age
         IN  [pb EXCEPT !.age = age,
                        !.yearly = [set |-> TRUE, na |-> FALSE, num |-> pb.cit.n, den |-> age]]
    ELSE [pb EXCEPT !.yearly = [set |-> TRUE, na |-> TRUE, num |-> 0, den |-> 1]]

\* from `if lookup_result:` to the end of the function: the publication and the
\* exception that ends the call ("" when it returns)
Fill(pb, lr) ==
    IF ~lr.bound
    THEN [pub |-> pb, err |-> "UnboundLocalError"]
    ELSE IF ~Truthy(lr.val)
    THEN [pub |-> Yearly(pb), err |-> ""]
    ELSE LET l == lr.val
             p1 == [pb EXCEPT !.embedding = Copy(pb, l, "embedding", @),
                              !.tldr = Copy(pb, l, "tldr", @),
                              !.fos = Copy(pb, l, "s2FieldsOfStudy", @)]
         IN  IF "publicationTypes" \in l.fields /\ "publicationVenue" \notin l.fields
             THEN [pub |-> p1, err |-> "KeyError"]
             ELSE LET p2 == [p1 EXCEPT
                                !.venue = IF "publicationTypes" \in l.fields
                                          THEN FieldValue(l.id, "publicationVenue") ELSE @,
                                !.ptype = Copy(p1, l, "publicationTypes", @)]
                  IN  [pub |-> Yearly(SetLists(p2, l)), err |-> ""]

Unbound == [bound |-> FALSE, val |-> EmptyDict]
Bound(l) == [bound |-> TRUE, val |-> l]

(***************************************************************************)
(* generate_cit_ref_auth_df of analysis_citations.py: the fold of the      *)
(* citation lists and the reference lists of bib_df into cit_df, ref_df    *)
(* and auth_df.                                                            *)
(***************************************************************************)
\* the largest number of rows of bib_df
MaxPubs == 3

\* None of Python, and the string 'N/A'
None == "None"
NAId == "N/A"

\* an author of an entry, and an entry of a citation list or reference list:
\* its paper id, title, year and authors
Auth(id, name) == [authorId |-> id, name |-> name]
Entry(id, title, year, authors) ==
    [paperId |-> id, title |-> title, year |-> year, authors |-> authors]

\* the rows bib_df is made of: 'year', 'scholar paper id', 'scholar authors id',
\* 'scholar citation count', 'scholar citations', 'scholar references'. The
\* last row is a publication that was not resolved (its citation count is NaN
\* and is never read: it has no reference)
BibPool ==
    << [year |-> 2001, paperId |-> "p1", authorsId |-> <<"a1", "a2">>, citCount |-> 3,
        citations |-> << Entry("x1", "T", 2005, <<Auth("a1", "A One"), Auth("a9", "Nine")>>),
                         Entry(None, "U", 2006, <<Auth("a9", "Nine"), Auth(None, "Anon")>>) >>,
        references |-> << Entry("x2", "R", 1999, <<Auth("a2", "Two")>>),
                          Entry(None, "V", 2000, <<Auth("a3", "Three"), Auth(None, "Anon")>>) >>],
       [year |-> 2003, paperId |-> "x1", authorsId |-> <<"a9">>, citCount |-> 1,
        citations |-> << >>,
        references |-> << Entry("x2", "R", 1999, <<Auth("a2", "Two")>>),
                          Entry("p1", "P", 2001, <<Auth("a1", "A. One")>>) >>],
       [year |-> 2001, paperId |-> "p3", authorsId |-> <<"a3">>, citCount |-> 0,
        citations |-> << Entry("x1", "T2", 2005, <<Auth("a1", "One, A")>>) >>,
        references |-> << Entry("x2", "R2", 1999, <<Auth("a2", "Two"), Auth("a9", "Nine")>>) >>],
       [year |-> 2004, paperId |-> NAId, authorsId |-> <<NAId>>, citCount |-> 0,
        citations |-> << >>, references |-> << >>] >>

BibIds == 1..Len(BibPool)

\* the sequences without repetition of at most MaxPubs rows: the orders in
\* which bib_df can hold a set of publications
RECURSIVE OrdersOf(_)
OrdersOf(S) ==
    IF S = {} THEN { <<>> }
    ELSE UNION { { <<i>> \o o : o \in OrdersOf(S \ {i}) } : i \in S }
BibOrders ==
    UNION { OrdersOf(S) : S \in { T \in SUBSET BibIds : T # {} /\ Cardinality(T) <= MaxPubs } }

\* bib_df for an order of rows
BibDf(order) == [i \in 1..Len(order) |-> BibPool[order[i]]]

\* years = np.sort(bib_df['year'].unique()); years_empty_dict
Years(bib) == { bib[i].year : i \in 1..Len(bib) }
\* every year from the first to the last year of bib_df, and a counter keyed by
\* them
YearRange(bib) ==
    { y \in 1990..2030 : /\ \E a \in Years(bib) : a <= y
                         /\ \E b \in Years(bib) : y <= b }
YearsRangeDict(bib) == [y \in YearRange(bib) |-> 0]

\* years_empty_dict = dict.fromkeys(years, 0)
YearsEmptyDict(bib) == [y \in Years(bib) |-> 0]

\* list(chain.from_iterable(bib_df['scholar authors id'].tolist()))
RECURSIVE ChainAuthorsId(_)
ChainAuthorsId(bib) ==
    IF bib = <<>> THEN <<>> ELSE Head(bib).authorsId \o ChainAuthorsId(Tail(bib))

\* list.remove(x): without the first x; ValueError when x is not in the list
InList(x, l) == \E i \in 1..Len(l) : l[i] = x
RECURSIVE ListRemove(_, _)
ListRemove(l, x) ==
    IF l = <<>> THEN <<>>
    ELSE IF Head(l) = x THEN Tail(l) ELSE <<Head(l)>> \o ListRemove(Tail(l), x)

\* NIME_authors_id before and after remove('N/A')
AuthorsIdList(bib) == Dedup(ChainAuthorsId(bib))
RemoveRaises(bib) == ~InList(NAId, AuthorsIdList(bib))
NIMEAuthorsId(bib) == ListRemove(AuthorsIdList(bib), NAId)

\* a test against the first row of bib_df alone
InBibFirstRow(bib, id) == bib # <<>> /\ bib[1].paperId = id

\* any(bib_df['scholar paper id'].isin([id]))
InBib(bib, id) == \E i \in 1..Len(bib) : bib[i].paperId = id

\* a search of the table that never finds the id
PaperIndexNone(df, id) == 0

\* any(df['paperId'].isin([id])) and df[df['paperId'] == id].index.to_list()[0]:
\* the index of the first row of df that holds id, 0 when none does
PaperIndex(df, id) ==
    IF \E i \in 1..Len(df) : df[i].paperId = id
    THEN CHOOSE i \in 1..Len(df) :
            df[i].paperId = id /\ \A j \in 1..(i - 1) : df[j].paperId # id
    ELSE 0
\* the same for auth_df['authorId']
AuthorIndex(df, id) ==
    IF \E i \in 1..Len(df) : df[i].authorId = id
    THEN CHOOSE i \in 1..Len(df) :
            df[i].authorId = id /\ \A j \in 1..(i - 1) : df[j].authorId # id
    ELSE 0

\* a per-year counter left as it is
BumpNot(d, y) == d

\* d[y] = d[y] + 1
Bump(d, y) == [d EXCEPT ![y] = @ + 1]

\* a citing author counted as a referenced author as well
CitAuthorBoth(auth_df, auth, item, bib) ==
    IF auth.authorId = None THEN auth_df
    ELSE LET idx == AuthorIndex(auth_df, auth.authorId)
         IN  IF idx # 0
             THEN [auth_df EXCEPT ![idx].cit_count = @ + 1,
                                  ![idx].cit_count_year = Bump(@, item.year),
                                  ![idx].ref_count = @ + 1,
                                  ![idx].ref_count_year = Bump(@, item.year)]
             ELSE Append(auth_df,
                         [authorId |-> auth.authorId, name |-> auth.name,
                          cit_count |-> 1,
                          cit_count_year |-> Bump(YearsEmptyDict(bib), item.year),
                          ref_count |-> 0,
                          ref_count_year |-> YearsEmptyDict(bib),
                          inNIME |-> InList(auth.authorId, NIMEAuthorsId(bib))])

\* the body of `for auth in cit['authors']`
CitAuthor(auth_df, auth, item, bib) ==
    IF auth.authorId = None THEN auth_df
    ELSE LET idx == AuthorIndex(auth_df, auth.authorId)
         IN  IF idx # 0
             THEN [auth_df EXCEPT ![idx].cit_count = @ + 1,
                                  ![idx].cit_count_year = Bump(@, item.year)]
             ELSE Append(auth_df,
                         [authorId |-> auth.authorId, name |-> auth.name,
                          cit_count |-> 1,
                          cit_count_year |-> Bump(YearsEmptyDict(bib), item.year),
                          ref_count |-> 0,
                          ref_count_year |-> YearsEmptyDict(bib),
                          inNIME |-> InList(auth.authorId, NIMEAuthorsId(bib))])

\* the body of `for auth in ref['authors']`
RefAuthor(auth_df, auth, item, bib) ==
    IF auth.authorId = None THEN auth_df
    ELSE LET idx == AuthorIndex(auth_df, auth.authorId)
         IN  IF idx # 0
             THEN [auth_df EXCEPT ![idx].ref_count = @ + 1,
                                  ![idx].ref_count_year = Bump(@, item.year)]
             ELSE Append(auth_df,
                         [authorId |-> auth.authorId, name |-> auth.name,
                          cit_count |-> 0,
                          cit_count_year |-> YearsEmptyDict(bib),
                          ref_count |-> 1,
                          ref_count_year |-> Bump(YearsEmptyDict(bib), item.year),
                          inNIME |-> InList(auth.authorId, NIMEAuthorsId(bib))])

\* the two loops over the authors of an entry
RECURSIVE CitAuthors(_, _, _, _)
CitAuthors(auth_df, authors, item, bib) ==
    IF authors = <<>> THEN auth_df
    ELSE CitAuthors(CitAuthor(auth_df, Head(authors), item, bib), Tail(authors), item, bib)
RECURSIVE RefAuthors(_, _, _, _)
RefAuthors(auth_df, authors, item, bib) ==
    IF authors = <<>> THEN auth_df
    ELSE RefAuthors(RefAuthor(auth_df, Head(authors), item, bib), Tail(authors), item, bib)

\* a bucket chosen by the year of the paper of the entry
BucketYearOfEntry(e, item) == e.year

\* count_year[item['year']]: the bucket an observation of entry e adds to
BucketYear(e, item) == item.year

\* an entry without a paper id that is folded like the others
SkippedNever(e) == FALSE

\* if cit['paperId'] is None: continue
Skipped(e) == e.paperId = None

\* a row that takes the title of every observation of its id
SeenCitRecopied(r, cit, item) ==
    [r EXCEPT !.count = @ + 1, !.count_year = Bump(@, BucketYear(cit, item)),
              !.title = cit.title]

\* the row of cit_df of an id that is observed again
SeenCit(r, cit, item) ==
    [r EXCEPT !.count = @ + 1, !.count_year = Bump(@, BucketYear(cit, item))]

\* the rest of the body of `for cit in item['scholar citations']`
CitPaper(cit_df, cit, item, bib) ==
    IF Skipped(cit) THEN cit_df
    ELSE LET idx == PaperIndex(cit_df, cit.paperId)
         IN  IF idx # 0
             THEN [cit_df EXCEPT ![idx] = SeenCit(@, cit, item)]
             ELSE Append(cit_df,
                         [paperId |-> cit.paperId, title |-> cit.title, year |-> cit.year,
                          authors |-> cit.authors,
                          count |-> 1,
                          count_year |-> Bump(YearsEmptyDict(bib), BucketYear(cit, item)),
                          inNIME |-> InBib(bib, cit.paperId)])

\* a 'count x cit' that counts the references
RefWeightByOne(old, item) == old + 1

\* a referenced row whose 'count x cit' keeps the citation count of the first
\* publication that made the reference
RefWeightKept(old, item) == old

\* ref_df.at[idx, 'count x cit'] + item['scholar citation count']
RefWeight(old, item) == old + item.citCount

\* the row of ref_df of an id that is observed again
SeenRef(r, ref, item) ==
    [r EXCEPT !.count = @ + 1,
              !.countXcit = RefWeight(@, item),
              !.count_year = Bump(@, BucketYear(ref, item))]

\* the rest of the body of `for ref in item['scholar references']`
RefPaper(ref_df, ref, item, bib) ==
    IF Skipped(ref) THEN ref_df
    ELSE LET idx == PaperIndex(ref_df, ref.paperId)
         IN  IF idx # 0
             THEN [ref_df EXCEPT ![idx] = SeenRef(@, ref, item)]
             ELSE Append(ref_df,
                         [paperId |-> ref.paperId, title |-> ref.title, year |-> ref.year,
                          authors |-> ref.authors,
                          count |-> 1,
                          countXcit |-> item.citCount,
                          count_year |-> Bump(YearsEmptyDict(bib), BucketYear(ref, item)),
                          inNIME |-> InBib(bib, ref.paperId)])

\* the three tables, empty; a fold of a citation that leaves out the authors of
\* an entry without a paper id; the tables after one more citation or reference
\* of item
EmptyTables == [cit_df |-> <<>>, ref_df |-> <<>>, auth_df |-> <<>>]
FoldCitSkipAuthors(t, cit, item, bib) ==
    IF Skipped(cit) THEN t
    ELSE [cit_df |-> CitPaper(t.cit_df, cit, item, bib),
          ref_df |-> t.ref_df,
          auth_df |-> CitAuthors(t.auth_df, cit.authors, item, bib)]
FoldCit(t, cit, item, bib) ==
    [cit_df |-> CitPaper(t.cit_df, cit, item, bib),
     ref_df |-> t.ref_df,
     auth_df |-> CitAuthors(t.auth_df, cit.authors, item, bib)]
FoldRef(t, ref, item, bib) ==
    [cit_df |-> t.cit_df,
     ref_df |-> RefPaper(t.ref_df, ref, item, bib),
     auth_df |-> RefAuthors(t.auth_df, ref.authors, item, bib)]

\* the loops over the citations, over the references and over the rows
RECURSIVE FoldCits(_, _, _, _)
FoldCits(t, cits, item, bib) ==
    IF cits = <<>> THEN t
    ELSE FoldCits(FoldCit(t, Head(cits), item, bib), Tail(cits), item, bib)
RECURSIVE FoldRefs(_, _, _, _)
FoldRefs(t, refs, item, bib) ==
    IF refs = <<>> THEN t
    ELSE FoldRefs(FoldRef(t, Head(refs), item, bib), Tail(refs), item, bib)
RECURSIVE FoldRows(_, _, _)
FoldRows(t, rows, bib) ==
    IF rows = <<>> THEN t
    ELSE FoldRows(FoldRefs(FoldCits(t, Head(rows).citations, Head(rows), bib),
                           Head(rows).references, Head(rows), bib),
                  Tail(rows), bib)
FoldAll(bib) == FoldRows(EmptyTables, bib, bib)

(***************************************************************************)
(* What a call computes from the publication and the command line alone,   *)
(* tabulated.                                                              *)
(***************************************************************************)
QueriesOf == [i \in PubIds |-> [a \in ArgSet |-> Queries(PubPool[i], a)]]
LastListOf == [i \in PubIds |-> [a \in ArgSet |-> AuthorLastList(PubPool[i], a)]]
InitFieldsOf == [i \in PubIds |-> [a \in ArgSet |-> InitFields(PubPool[i], a)]]

VARIABLES
    cacheFile,      \* ./cache/json/scholar_cache.json
    args,           \* the command line of the run
    pc,             \* "idle", "query", "search", "lookup", "returned", "raised"
    err,            \* the exception that ended the call, "" if none
    pubId,          \* the publication request_scholar was called with (0: none yet)
    pub,            \* its 'scholar ...' keys
    scholar_cache,  \* the dict of the call
    path,           \* "miss" or "hit": the branch of `if full_query not in scholar_cache`
    idx,            \* the loop index of the candidate being tried
    lookup_result,
    loaded,         \* history: the cache as the call loaded it
    sent,           \* history: the queries the call sent to the search endpoint
    nLookup,        \* history: the lookup calls of the call
    last,           \* history: the search answer the loop body has just handled
    sawException,   \* history: a search call of this call raised
    prev,           \* history: the call before this one, when it returned
    calls,          \* the calls made so far
    corpus,         \* the publications the run goes through
    pace            \* history: whether the run has made a network call, and the
                    \* time slept since the latest one went out

VARIABLES
    bib_df,         \* the rows of the bibliography table, in their order
    cit_df,         \* the table of the citing papers
    ref_df,         \* the table of the referenced papers
    auth_df,        \* the table of the authors of both
    fpc,            \* generate_cit_ref_auth_df: "idle", "start", "fold", "done", "raised"
    row,            \* the row of bib_df the loop is at
    ent,            \* the entries of that row folded so far, citations first
    ferr            \* the exception that ended generate_cit_ref_auth_df, "" if none

foldVars == <<bib_df, cit_df, ref_df, auth_df, fpc, row, ent, ferr>>

resolverVars == <<cacheFile, args, pc, err, pubId, pub, scholar_cache, path, idx,
          lookup_result, loaded, sent, nLookup, last, sawException, prev, calls,
                  corpus, pace>>

vars == <<resolverVars, foldVars>>

NoResponse == [kind |-> "nodata", rec |-> NoRecord]
NoLast == [valid |-> FALSE, resp |-> NoResponse, idx |-> 0]
NoPub == InitFieldsOf[1][DefaultArgs]
NoPrev == [valid |-> FALSE, pubId |-> 0, path |-> "miss", pub |-> NoPub]
NoPace == [hadCall |-> FALSE, since |-> 0]
\* a request goes out
Issued == [hadCall |-> TRUE, since |-> 0]
\* requests.get(...).json() has raised (no sleep) or returned (sleep)
Ended(raised, a) == [hadCall |-> TRUE, since |-> IF raised THEN 0 ELSE Delay(a)]

\* the cache files a run may find: none, an unreadable one, or one written by an
\* earlier version that stored the sentinel
InitialFiles ==
    { AbsentFile, CorruptFile,
      OkFile(CachePut(EmptyCache, InitFieldsOf[1][DefaultArgs].query, NAEntry)) }

\* generate_cit_ref_auth_df is not running
FoldIdle ==
    /\ bib_df = <<>>
    /\ cit_df = <<>>
    /\ ref_df = <<>>
    /\ auth_df = <<>>
    /\ fpc = "idle"
    /\ row = 0
    /\ ent = 0
    /\ ferr = ""

ResolverInit(c) ==
    /\ corpus = c
    /\ cacheFile \in InitialFiles
    /\ args \in CommandLines
    /\ pc = "idle"
    /\ err = ""
    /\ pubId = 0
    /\ pub = NoPub
    /\ scholar_cache = EmptyCache
    /\ path = "miss"
    /\ idx = 0
    /\ lookup_result = Unbound
    /\ loaded = EmptyCache
    /\ sent = <<>>
    /\ nLookup = 0
    /\ last = NoLast
    /\ sawException = FALSE
    /\ prev = NoPrev
    /\ calls = 0
    /\ pace = NoPace

InitFor(c) == ResolverInit(c) /\ FoldIdle

Init == InitFor(MainCorpus)

\* a run over the publication whose author has no last name
InitEmptySurname == InitFor(EmptySurnameCorpus)

\* the end of the call: the rest of the function from `if lookup_result:`
Return(pb, lr) ==
    LET f == Fill(pb, lr)
    IN  /\ pub' = f.pub
        /\ err' = f.err
        /\ pc' = IF f.err = "" THEN "returned" ELSE "raised"
        /\ lookup_result' = lr

\* an exception leaves request_scholar, and the loop of pa.py with it
Raise(e, pb, lr) ==
    /\ pub' = pb
    /\ err' = e
    /\ pc' = "raised"
    /\ lookup_result' = lr

\* request_scholar(pub, args), up to its first network call or to its end
Call(i) ==
    /\ pc \in {"idle", "returned"}
    /\ UNCHANGED foldVars
    /\ i \in corpus
    /\ calls < MaxCalls
    /\ calls' = calls + 1
    /\ pubId' = i
    /\ prev' = IF pc = "returned"
               THEN [valid |-> TRUE, pubId |-> pubId, path |-> path, pub |-> pub]
               ELSE NoPrev
    /\ last' = NoLast
    /\ sawException' = FALSE
    /\ idx' = 0
    /\ sent' = <<>>
    /\ UNCHANGED <<cacheFile, args, corpus, pace>>
    /\ LET cache == cacheFile.data
           pb == InitFieldsOf[i][args]
           key == pb.query
       IN  IF cacheFile.state = "corrupt"
           THEN /\ Raise("JSONDecodeError", NoPub, Unbound)
                /\ path' = "miss"
                /\ scholar_cache' = EmptyCache
                /\ loaded' = EmptyCache
                /\ nLookup' = 0
           ELSE /\ loaded' = cache
                /\ scholar_cache' = cache
                /\ IF ~CacheHit(key, cache)
                   THEN /\ path' = "miss"
                        /\ pub' = pb
                        /\ err' = ""
                        /\ lookup_result' = Bound(EmptyDict)
                        /\ pc' = "query"
                        /\ nLookup' = 0
                   ELSE /\ path' = "hit"
                        /\ IF cache[key].kind = "NA"
                           THEN /\ nLookup' = 0
                                /\ Return(pb, Unbound)
                           ELSE LET rec == cache[key].rec
                                    p1 == SetIdentity(pb, rec)
                                IN  IF HitDetailMissing(rec.paperId, cache)
                                    THEN /\ nLookup' = 0
                                         /\ Raise("KeyError", p1, Unbound)
                                    ELSE IF rec.paperId \notin DOMAIN cache
                                    THEN /\ nLookup' = 1
                                         /\ pub' = p1
                                         /\ err' = ""
                                         /\ pc' = "lookup"
                                         /\ lookup_result' = Unbound
                                    ELSE /\ nLookup' = 0
                                         /\ Return(SetFromCachedDetail(p1, cache[rec.paperId].payload),
                                                   Bound(cache[rec.paperId].payload))

\* the loop reaches scholar_api_paper_search for candidate idx: the request goes out
SearchCall ==
    /\ pc = "query"
    /\ UNCHANGED foldVars
    /\ pc' = "search"
    /\ sent' = Append(sent, ScholarQuery(QueriesOf[pubId][args][idx + 1]))
    /\ last' = NoLast
    /\ pace' = Issued
    /\ UNCHANGED <<cacheFile, args, err, pubId, pub, scholar_cache, path, idx,
                   lookup_result, loaded, nLookup, sawException, prev, calls, corpus>>

\* the lines after the loop of the cache-miss branch, and the rest of the function
AfterLoop(pb, c, lr) ==
    LET c2 == IF pb.cit.na THEN ExhaustedCache(c, pb.query) ELSE c
    IN  /\ scholar_cache' = c2
        /\ cacheFile' = WriteCache(cacheFile, c2)
        /\ Return(pb, lr)

\* the search call of candidate idx ends with resp; the loop body runs, and the
\* function goes on to its next network call or to its end
SearchResponse(resp) ==
    /\ pc = "search"
    /\ UNCHANGED foldVars
    /\ last' = [valid |-> TRUE, resp |-> resp, idx |-> idx]
    /\ sawException' = (sawException \/ resp.kind = "exception")
    /\ UNCHANGED <<args, pubId, path, loaded, sent, prev, calls, corpus>>
    /\ LET queries == QueriesOf[pubId][args]
           last_iter == (idx = Len(queries) - 1)
           lastList == LastListOf[pubId][args]
           query_result == QueryResult(resp)
       IN  IF SearchEscapes(resp)
           THEN /\ Raise("SearchException", pub, lookup_result)
                /\ UNCHANGED <<cacheFile, scholar_cache, idx, nLookup>>
           ELSE IF Accepts(query_result, last_iter, lastList)
           THEN LET rec == [query_result.rec EXCEPT !.hasCit = TRUE]
                    p1 == SetIdentity(pub, rec)
                    c1 == CachePut(scholar_cache,
                                   StoreKey(pub.query, ScholarQuery(queries[idx + 1])),
                                   SearchEntry(rec))
                IN  /\ UNCHANGED idx
                    /\ IF rec.paperId \notin DOMAIN c1
                       THEN /\ pub' = p1
                            /\ scholar_cache' = c1
                            /\ pc' = "lookup"
                            /\ nLookup' = nLookup + 1
                            /\ UNCHANGED <<cacheFile, err, lookup_result>>
                       ELSE /\ nLookup' = nLookup
                            /\ AfterLoop(p1, c1, Bound(c1[rec.paperId].payload))
           ELSE IF last_iter
           THEN /\ UNCHANGED <<idx, nLookup>>
                /\ AfterLoop(pub, scholar_cache, lookup_result)
           ELSE /\ idx' = idx + 1
                /\ pc' = "query"
                /\ UNCHANGED <<cacheFile, err, pub, scholar_cache, lookup_result, nLookup>>
    /\ pace' = IF pc' = "lookup" THEN Issued ELSE Ended(resp.kind = "exception", args)

\* the lookup call ends with resp; the function runs to its end
LookupResponse(resp) ==
    /\ pc = "lookup"
    /\ UNCHANGED foldVars
    /\ pace' = Ended(resp.kind = "exception", args)
    /\ UNCHANGED <<args, pubId, path, idx, loaded, sent, nLookup, last, sawException, prev,
                   calls, corpus>>
    /\ IF LookupEscapes(resp)
       THEN /\ Raise("LookupException", pub, lookup_result)
            /\ UNCHANGED <<cacheFile, scholar_cache>>
       ELSE IF path = "miss"
       THEN LET c1 == IF LookupStored(resp.payload)
                      THEN CachePut(scholar_cache, pub.paperId, LookupEntry(resp.payload))
                      ELSE scholar_cache
            IN  AfterLoop(pub, c1, Bound(resp.payload))
       ELSE /\ scholar_cache' = CachePut(scholar_cache, pub.paperId, LookupEntry(resp.payload))
            /\ UNCHANGED cacheFile
            /\ Return(pub, Bound(resp.payload))

\* the run that an exception ended is started again with the same command line
Restart ==
    /\ pc = "raised"
    /\ UNCHANGED foldVars
    /\ calls < MaxCalls
    /\ pc' = "idle"
    /\ err' = ""
    /\ prev' = NoPrev
    /\ pace' = NoPace
    /\ UNCHANGED <<cacheFile, args, pubId, pub, scholar_cache, path, idx, lookup_result,
                   loaded, sent, nLookup, last, sawException, calls, corpus>>

Next ==
    \/ \E i \in PubIds : Call(i)
    \/ SearchCall
    \/ \E resp \in SearchResponses : SearchResponse(resp)
    \/ \E resp \in LookupResponses(pub.paperId) : LookupResponse(resp)
    \/ Restart

Spec == Init /\ [][Next]_vars

SpecEmptySurname == InitEmptySurname /\ [][Next]_vars

(***************************************************************************)
(* generate_cit_ref_auth_df(bib_df), with no pickled table in ./cache/df.  *)
(***************************************************************************)
\* the function is called with the rows of an order; the resolver is not running
InitFold ==
    /\ ResolverInit(MainCorpus)
    /\ cacheFile = AbsentFile
    /\ args = DefaultArgs
    /\ bib_df \in { BibDf(o) : o \in BibOrders }
    /\ cit_df = <<>>
    /\ ref_df = <<>>
    /\ auth_df = <<>>
    /\ fpc = "start"
    /\ row = 0
    /\ ent = 0
    /\ ferr = ""

\* the row the loop is at, and the three tables
Item == bib_df[row]
Tables == [cit_df |-> cit_df, ref_df |-> ref_df, auth_df |-> auth_df]
SetTables(t) ==
    /\ cit_df' = t.cit_df
    /\ ref_df' = t.ref_df
    /\ auth_df' = t.auth_df

\* the lines before the loop: years, NIME_authors_id and the empty tables
Generate ==
    /\ fpc = "start"
    /\ IF RemoveRaises(bib_df)
       THEN /\ fpc' = "raised"
            /\ ferr' = "ValueError"
            /\ UNCHANGED <<cit_df, ref_df, auth_df, row, ent>>
       ELSE /\ fpc' = "fold"
            /\ row' = 1
            /\ ent' = 0
            /\ SetTables(EmptyTables)
            /\ UNCHANGED ferr
    /\ UNCHANGED <<bib_df, resolverVars>>

\* one pass of `for cit in item['scholar citations']`
FoldCitation ==
    /\ fpc = "fold"
    /\ row <= Len(bib_df)
    /\ ent < Len(Item.citations)
    /\ SetTables(FoldCit(Tables, Item.citations[ent + 1], Item, bib_df))
    /\ ent' = ent + 1
    /\ UNCHANGED <<bib_df, fpc, row, ferr, resolverVars>>

\* one pass of `for ref in item['scholar references']`
FoldReference ==
    /\ fpc = "fold"
    /\ row <= Len(bib_df)
    /\ ent >= Len(Item.citations)
    /\ ent < Len(Item.citations) + Len(Item.references)
    /\ SetTables(FoldRef(Tables, Item.references[ent - Len(Item.citations) + 1], Item, bib_df))
    /\ ent' = ent + 1
    /\ UNCHANGED <<bib_df, fpc, row, ferr, resolverVars>>

\* `for index,item in bib_df.iterrows()` goes to the next row
NextRow ==
    /\ fpc = "fold"
    /\ row <= Len(bib_df)
    /\ ent = Len(Item.citations) + Len(Item.references)
    /\ row' = row + 1
    /\ ent' = 0
    /\ UNCHANGED <<bib_df, cit_df, ref_df, auth_df, fpc, ferr, resolverVars>>

\* after the loop: the tables are pickled and returned
ReturnTables ==
    /\ fpc = "fold"
    /\ row > Len(bib_df)
    /\ fpc' = "done"
    /\ UNCHANGED <<bib_df, cit_df, ref_df, auth_df, row, ent, ferr, resolverVars>>

NextFold ==
    \/ Generate
    \/ FoldCitation
    \/ FoldReference
    \/ NextRow
    \/ ReturnTables

SpecFold == InitFold /\ [][NextFold]_vars

(***************************************************************************)
(* Properties.                                                             *)
(***************************************************************************)
\* a call has been made, and its publication and candidates
Called == pubId # 0
ThePub == PubPool[pubId]
TheQueries == QueriesOf[pubId][args]
\* the composite key of the call's publication: its title, its space-joined
\* surnames and its year
OriginalKey(i, a) ==
    Fmt3(Unidecode(PubPool[i].title), JoinSpace(LastListOf[i][a]), PubPool[i].year)
\* the call found its composite key in the cache it loaded
KeyWasCached == Called /\ OriginalKey(pubId, args) \in DOMAIN loaded
\* the cache-miss branch accepted a record
AcceptedNow == Called /\ path = "miss" /\ pub.paperId # NA
\* the cache-miss branch tried every candidate and accepted none
Exhausted(pth, pb, state) == state = "returned" /\ pth = "miss" /\ pb.cit.na

\* C1: a call whose composite key is a key of the loaded cache sends no search
\* query and makes no lookup call, whatever is stored under the key.
C1_CacheHitNoNetwork ==
    KeyWasCached => /\ sent = <<>>
                    /\ nLookup = 0
                    /\ pc \notin {"query", "search", "lookup"}

C1_Witness == KeyWasCached /\ pc = "returned" /\ loaded[OriginalKey(pubId, args)].kind = "search"

\* C2 as claimed: a call that tried every candidate and accepted none leaves the
\* sentinel in the cache file under the composite key, and the paper id 'N/A'.
C2_SentinelPersisted ==
    Exhausted(path, pub, pc) =>
        /\ cacheFile.state = "ok"
        /\ OriginalKey(pubId, args) \in DOMAIN cacheFile.data
        /\ cacheFile.data[OriginalKey(pubId, args)].kind = "NA"
        /\ pub.paperId = NA

\* C2 as amended: such a call has sent every candidate, writes the cache file
\* with exactly the entries it loaded, nothing under the composite key, and leaves
\* the paper id 'N/A'; the next call for the same publication takes the
\* cache-miss branch again.
C2_ExhaustionNotCached ==
    /\ Exhausted(path, pub, pc) =>
          /\ Len(sent) = Len(TheQueries)
          /\ cacheFile = OkFile(loaded)
          /\ OriginalKey(pubId, args) \notin DOMAIN cacheFile.data
          /\ pub.paperId = NA
    /\ (prev.valid /\ Exhausted(prev.path, prev.pub, "returned") /\ prev.pubId = pubId) =>
          /\ path = "miss"
          /\ ~KeyWasCached

C2_Witness ==
    /\ prev.valid /\ Exhausted(prev.path, prev.pub, "returned") /\ prev.pubId = pubId
    /\ pc = "search"

\* the two conditions of the claim on the record the loop body has just handled
AuthorCountOk == Len(last.resp.rec.authors) <= Len(ThePub.names) + 1
SurnameFound == AuthorMatches(last.resp.rec, LastListOf[pubId][args])
LastWasFinal == last.idx = Len(TheQueries) - 1

\* C3 as claimed: at every position and with or without a citation count, the
\* top record is accepted exactly when its author count is at most the local
\* author count plus one and the first author's surname is found.
C3_AcceptedIffAuthorsMatch ==
    (last.valid /\ last.resp.kind = "data") =>
        ((pub.paperId # NA) <=> (AuthorCountOk /\ SurnameFound))

\* C3 as amended: the answer is accepted exactly when it has a top record, the
\* two conditions hold and the record carries a citation count or the candidate
\* is the last of the order.
C3_AcceptedIffMatchAndCounted ==
    last.valid =>
        ((pub.paperId # NA) <=>
            /\ last.resp.kind = "data"
            /\ AuthorCountOk
            /\ SurnameFound
            /\ (last.resp.rec.hasCit \/ LastWasFinal))

C3_Witness ==
    /\ last.valid /\ last.resp.kind = "data" /\ ~last.resp.rec.hasCit
    /\ pub.paperId # NA
    /\ Len(last.resp.rec.authors) = Len(ThePub.names) + 1

\* the candidate order of the claim, written out: for each title variant, for
\* each author variant, the query with the empty year and then with the year
RECURSIVE C4_Names(_, _, _)
C4_Names(t, ns, y) ==
    IF ns = <<>> THEN <<>>
    ELSE <<Fmt3(t, Head(ns), <<>>), Fmt3(t, Head(ns), y)>> \o C4_Names(t, Tail(ns), y)
RECURSIVE C4_Titles(_, _, _)
C4_Titles(ts, ns, y) ==
    IF ts = <<>> THEN <<>>
    ELSE C4_Names(Head(ts), ns, y) \o C4_Titles(Tail(ts), ns, y)
C4_Order == [i \in PubIds |-> [a \in ArgSet |->
                C4_Titles(QueryTitle(PubPool[i]), QueryName(PubPool[i], a), PubPool[i].year)]]

\* C4: the queries sent are the first queries of the fixed order, one per
\* candidate tried; when the k-th answer is accepted exactly k were sent and
\* the loop sends no other.
C4_OrderAndCount ==
    Called =>
        /\ LET order == C4_Order[pubId][args]
           IN  /\ Len(sent) <= Len(order)
               /\ \A k \in 1..Len(sent) : sent[k] = order[k]
        /\ (pc = "search") => Len(sent) = idx + 1
        /\ (pc = "query") => Len(sent) = idx
        /\ AcceptedNow => /\ pc \notin {"query", "search"}
                          /\ last.valid
                          /\ Len(sent) = last.idx + 1

C4_Witness == AcceptedNow /\ pc = "returned" /\ Len(sent) = 3 /\ pubId = 1

\* C5: an exception of a search call does not end the call: the loop goes on
\* to the next candidate, or, after the last one, the call returns unresolved.
C5_SearchErrorSkipsCandidate ==
    /\ err # "SearchException"
    /\ (last.valid /\ last.resp.kind = "exception") =>
          IF LastWasFinal
          THEN pc = "returned" /\ pub.paperId = NA
          ELSE pc = "query" /\ idx = last.idx + 1 /\ pub.paperId = NA

C5_Witness == sawException /\ AcceptedNow /\ pc = "returned"

\* C6 as claimed: no call ends with the exception of its lookup call.
C6_LookupErrorCaught == ~(pc = "raised" /\ err = "LookupException")

\* C7: the accepted answer is stored under the composite key of the original
\* title, surnames and year, at whichever candidate it was accepted; the call
\* adds no other key than this one and the paper id, and every key of the cache
\* is a composite key of a publication or a paper id.
C7_KeyFromOriginal ==
    /\ AcceptedNow =>
          /\ last.valid
          /\ OriginalKey(pubId, args) \in DOMAIN scholar_cache
          /\ scholar_cache[OriginalKey(pubId, args)] =
                SearchEntry([last.resp.rec EXCEPT !.hasCit = TRUE])
    /\ (DOMAIN scholar_cache) \ (DOMAIN loaded) \subseteq
          IF Called THEN {OriginalKey(pubId, args), pub.paperId} ELSE {}
    /\ \A k \in (DOMAIN scholar_cache) \cup (DOMAIN cacheFile.data) :
          \/ k \in PaperIds
          \/ \E i \in PubIds, a \in ArgSet : k = OriginalKey(i, a)

C7_Witness ==
    /\ AcceptedNow /\ pc = "returned"
    /\ TheQueries[last.idx + 1][1] # Unidecode(ThePub.title)
    /\ ScholarQuery(TheQueries[last.idx + 1]) # OriginalKey(pubId, args)

\* C8 as claimed: a call that finds the sentinel under its composite key ends
\* by returning, without a network call, with paper id and citation count 'N/A'.
C8_SentinelHitReturns ==
    (KeyWasCached /\ loaded[OriginalKey(pubId, args)].kind = "NA"
       /\ pc \in {"returned", "raised"}) =>
        /\ pc = "returned"
        /\ sent = <<>>
        /\ nLookup = 0
        /\ pub.paperId = NA
        /\ pub.cit.na

\* C9 as claimed: the call that follows, for the same publication, a call that
\* accepted a record ends by returning, with the same paper id, title, counts,
\* author ids, citation list and reference list.
C9_SecondCallSame ==
    (/\ prev.valid /\ prev.pubId = pubId /\ prev.path = "miss" /\ ~prev.pub.cit.na
     /\ pc \in {"returned", "raised"}) =>
        /\ pc = "returned"
        /\ pub.paperId = prev.pub.paperId
        /\ pub.stitle = prev.pub.stitle
        /\ pub.cit = prev.pub.cit
        /\ pub.infl = prev.pub.infl
        /\ pub.authorsId = prev.pub.authorsId
        /\ pub.citations = prev.pub.citations
        /\ pub.references = prev.pub.references

\* C10: when a call returns, every entry it added to scholar_cache is in the
\* cache file, with the same value.
C10_AddedEntriesPersisted ==
    pc = "returned" =>
        \A k \in (DOMAIN scholar_cache) \ (DOMAIN loaded) :
            /\ cacheFile.state = "ok"
            /\ k \in DOMAIN cacheFile.data
            /\ cacheFile.data[k] = scholar_cache[k]

C10_Witness ==
    /\ pc = "returned"
    /\ OriginalKey(pubId, args) \in (DOMAIN scholar_cache) \ (DOMAIN loaded)
    /\ pub.paperId \in (DOMAIN scholar_cache) \ (DOMAIN loaded)

\* C11: loading the cache never aborts a call: with no cache file and with a
\* cache file that does not parse alike, the call goes on with an empty cache
C11_LoadNeverAborts ==
    (Called /\ cacheFile.state # "ok" /\ calls = 1)
        => (err # "JSONDecodeError" /\ loaded = EmptyCache /\ pc # "raised")

\* the latest network call of the run was answered, and the function has slept
Answered ==
    \/ pc = "query" /\ last.valid /\ last.resp.kind # "exception"
    \/ pc \in {"returned", "raised"} /\ path = "miss" /\ nLookup = 1
           /\ err # "LookupException"

\* C12 as worded: the delay after a call is shorter with an API key than the
\* delay without one
C12_KeyShortensDelay ==
    (Answered /\ args.sskey # <<>>) => pace.since < NoKeyDelayMs

\* C12: the delay after an answered call is --sleep with an API key and 0.06 s
\* without one; with the default --sleep it is the longer one with a key
C12_DelayIsSleepWithKey ==
    Answered =>
        /\ pace.since = (IF args.sskey # <<>> THEN args.sleep ELSE NoKeyDelayMs)
        /\ (args.sskey # <<>> /\ args.sleep = DefaultSleepMs) => pace.since > NoKeyDelayMs
        /\ (args.sskey # <<>> /\ args.sleep < NoKeyDelayMs) => pace.since < NoKeyDelayMs

C12_Witness ==
    /\ Answered
    /\ args.sskey # <<>>
    /\ args.sleep = DefaultSleepMs
    /\ pace.since = DefaultSleepMs

\* C13: when a search request is about to go out after another network call of
\* the run, answered or failed, the rate-limit delay has elapsed since that call
C13_DelayBetweenCalls ==
    (pc = "query" /\ pace.hadCall) => pace.since >= Delay(args)

\* C14 as worded: a call that accepted a paper id which was not a key of the
\* cache and that returns has made one lookup call and has stored its answer
\* under the id
C14_LookupPayloadStored ==
    (AcceptedNow /\ pc = "returned" /\ pub.paperId \notin DOMAIN loaded) =>
        /\ nLookup = 1
        /\ pub.paperId \in DOMAIN scholar_cache
        /\ scholar_cache[pub.paperId] = LookupEntry(lookup_result.val)

\* C14: for a paper id accepted in the cache-miss branch. When the id is not a
\* key of the cache, one lookup call is made; an answer without a 'message' key
\* is stored under the id, in the dict and in the file, an answer with one is
\* used by the call and not stored, and when the lookup call raises nothing is
\* stored. When the id is a key, no lookup call is made and the cached answer
\* is the one the call uses.
C14_LookupOnceStoredUnlessMessage ==
    (AcceptedNow /\ pc \in {"lookup", "returned", "raised"}) =>
        IF pub.paperId \notin DOMAIN loaded
        THEN /\ nLookup = 1
             /\ pc = "lookup" => pub.paperId \notin DOMAIN scholar_cache
             /\ (pc # "lookup" /\ err = "LookupException") =>
                    pub.paperId \notin DOMAIN scholar_cache
             /\ (pc # "lookup" /\ err # "LookupException") =>
                    /\ lookup_result.bound
                    /\ IF lookup_result.val.message
                       THEN /\ pub.paperId \notin DOMAIN scholar_cache
                            /\ pub.paperId \notin DOMAIN cacheFile.data
                       ELSE /\ pub.paperId \in DOMAIN scholar_cache
                            /\ scholar_cache[pub.paperId] = LookupEntry(lookup_result.val)
                            /\ cacheFile = OkFile(scholar_cache)
        ELSE /\ nLookup = 0
             /\ pc # "lookup"
             /\ lookup_result = Bound(loaded[pub.paperId].payload)
             /\ scholar_cache[pub.paperId] = loaded[pub.paperId]

C14_Witness ==
    /\ AcceptedNow /\ pc = "returned"
    /\ pub.paperId \notin DOMAIN loaded
    /\ nLookup = 1
    /\ lookup_result.val.message
    /\ pub.paperId \notin DOMAIN scholar_cache

\* the key of the publication that holds optional field f of a lookup answer
PubField(pb, f) ==
    CASE f = "embedding" -> pb.embedding
      [] f = "tldr" -> pb.tldr
      [] f = "s2FieldsOfStudy" -> pb.fos
      [] f = "publicationTypes" -> pb.ptype
      [] f = "publicationVenue" -> pb.venue
      [] f = "citations" -> pb.citations
      [] f = "references" -> pb.references

\* C15 as worded: whatever subset of the optional fields the lookup answer of
\* a call holds, the call returns, and every field the answer does not hold is
\* left empty on the publication
C15_OptionalFieldsNeverRaise ==
    (pc \in {"returned", "raised"} /\ lookup_result.bound /\ Truthy(lookup_result.val)) =>
        /\ pc = "returned"
        /\ \A f \in OptFields \ lookup_result.val.fields : PubField(pub, f) = <<>>

\* the queries sent by the call are pairwise different
NoQueryTwice == \A j, k \in 1..Len(sent) : sent[j] = sent[k] => j = k

\* the number of title variants and of author variants of the call
TitleVariants == Len(QueryTitle(ThePub))
AuthorVariants == Len(QueryName(ThePub, args))

\* C16: a call that takes the cache-miss branch sends at most
\* (title variants) x (author variants) x 2 search queries, at most 18, and 12
\* when the publication has one author, never the same query twice, and makes
\* at most one lookup call; when it has ended the paper id is set, or every
\* candidate was tried and the call returned with the paper id 'N/A'
C16_BoundedAndDistinct ==
    (Called /\ path = "miss" /\ err # "JSONDecodeError") =>
        /\ Len(sent) <= TitleVariants * AuthorVariants * 2
        /\ Len(sent) <= 18
        /\ Len(ThePub.names) = 1 => Len(sent) <= 12
        /\ nLookup <= 1
        /\ NoQueryTwice
        /\ pc \in {"returned", "raised"} =>
              \/ pub.paperId # NA
              \/ pc = "returned" /\ pub.paperId = NA /\ Len(sent) = Len(TheQueries)

\* C17: in a run started with --citations, a call whose composite key is a key
\* of the cache it loaded, and that returns, has sent search queries all the same
C17_CitationsBypassesCache ==
    (args.citations /\ KeyWasCached /\ pc = "returned") => sent # <<>>

\* the paper ids of a table of papers and the author ids of the author table, in
\* row order
PaperIdsOf(df) == [i \in 1..Len(df) |-> df[i].paperId]
AuthorIdsOf(df) == [i \in 1..Len(df) |-> df[i].authorId]
NoRepeat(l) == \A i, j \in 1..Len(l) : l[i] = l[j] => i = j

\* C18: at every point of the fold, no paper id is in two rows of cit_df or in
\* two rows of ref_df, and no author id is in two rows of auth_df
C18_OneRowPerId ==
    /\ NoRepeat(PaperIdsOf(cit_df))
    /\ NoRepeat(PaperIdsOf(ref_df))
    /\ NoRepeat(AuthorIdsOf(auth_df))

\* the same paper and the same author have been seen from two rows of bib_df
C18_Witness ==
    /\ fpc = "done"
    /\ \E i \in 1..Len(cit_df) : cit_df[i].count = 2
    /\ \E i \in 1..Len(ref_df) : ref_df[i].count = 2
    /\ \E i \in 1..Len(auth_df) : auth_df[i].cit_count + auth_df[i].ref_count >= 3

\* the sum of the values of a per-year counter
RECURSIVE SumOver(_, _)
SumOver(d, ys) ==
    IF ys = {} THEN 0
    ELSE LET y == CHOOSE z \in ys : TRUE IN d[y] + SumOver(d, ys \ {y})
Total(d) == SumOver(d, DOMAIN d)

\* C19: at every point of the fold, count_year of every row of cit_df and of
\* ref_df sums to its count, and cit_count_year and ref_count_year of every row
\* of auth_df sum to its cit_count and to its ref_count
C19_YearsSumToCount ==
    /\ \A i \in 1..Len(cit_df) : Total(cit_df[i].count_year) = cit_df[i].count
    /\ \A i \in 1..Len(ref_df) : Total(ref_df[i].count_year) = ref_df[i].count
    /\ \A i \in 1..Len(auth_df) :
          /\ Total(auth_df[i].cit_count_year) = auth_df[i].cit_count
          /\ Total(auth_df[i].ref_count_year) = auth_df[i].ref_count

\* a row counted from rows of bib_df of two different years, in the middle of
\* the fold
C19_Witness ==
    /\ fpc = "fold"
    /\ \E i \in 1..Len(ref_df) :
          /\ ref_df[i].count = 2
          /\ \E y1, y2 \in DOMAIN ref_df[i].count_year :
                y1 # y2 /\ ref_df[i].count_year[y1] = 1 /\ ref_df[i].count_year[y2] = 1
    /\ \E i \in 1..Len(auth_df) : auth_df[i].cit_count >= 1 /\ auth_df[i].ref_count >= 1

\* the counters of the tables, by id
PaperCounts(df) ==
    { [id |-> df[i].paperId, count |-> df[i].count, count_year |-> df[i].count_year] :
        i \in 1..Len(df) }
RefWeights(df) == { [id |-> df[i].paperId, countXcit |-> df[i].countXcit] : i \in 1..Len(df) }
AuthorCounts(df) ==
    { [id |-> df[i].authorId, cit_count |-> df[i].cit_count,
       cit_count_year |-> df[i].cit_count_year, ref_count |-> df[i].ref_count,
       ref_count_year |-> df[i].ref_count_year] : i \in 1..Len(df) }
Counters(t) ==
    [cit |-> PaperCounts(t.cit_df), ref |-> PaperCounts(t.ref_df),
     weight |-> RefWeights(t.ref_df), auth |-> AuthorCounts(t.auth_df)]

\* the rows of bib in every order
Permuted(bib) == { [i \in 1..Len(bib) |-> bib[o[i]]] : o \in OrdersOf(1..Len(bib)) }

\* C20: the fold of the same rows in any other order ends with the same count,
\* the same 'count x cit' and the same per-year counters for every paper id
\* and every author id
C20_OrderIndependentCounts ==
    fpc = "done" => \A b \in Permuted(bib_df) : Counters(FoldAll(b)) = Counters(Tables)

\* three rows were folded, two of which, of different citation counts, refer to
\* the same paper
C20_Witness ==
    /\ fpc = "done"
    /\ Len(bib_df) = 3
    /\ \E i \in 1..Len(ref_df) : ref_df[i].count = 2 /\ ref_df[i].countXcit = 3
    /\ FoldAll(bib_df) = Tables

\* C21: the fold of the same rows in any other order ends with the same three
\* tables: the same rows in the same order, with every field the same
C21_TablesOrderIndependent ==
    fpc = "done" => \A b \in Permuted(bib_df) : FoldAll(b) = Tables

\* the fold is about to take a citation, or a reference, of the row it is at
FoldingCit == fpc = "fold" /\ row <= Len(bib_df) /\ ent < Len(Item.citations)
FoldingRef ==
    /\ fpc = "fold" /\ row <= Len(bib_df)
    /\ ent >= Len(Item.citations)
    /\ ent < Len(Item.citations) + Len(Item.references)
CurCit == Item.citations[ent + 1]
CurRef == Item.references[ent - Len(Item.citations) + 1]

\* the citations and the references of row k of bib_df folded so far
CitsDone(k) ==
    IF fpc \notin {"fold", "done"} THEN 0
    ELSE IF k < row THEN Len(bib_df[k].citations)
    ELSE IF k = row THEN (IF ent < Len(bib_df[k].citations) THEN ent
                          ELSE Len(bib_df[k].citations))
    ELSE 0
RefsDone(k) ==
    IF fpc \notin {"fold", "done"} THEN 0
    ELSE IF k < row THEN Len(bib_df[k].references)
    ELSE IF k = row THEN (IF ent > Len(bib_df[k].citations)
                          THEN ent - Len(bib_df[k].citations) ELSE 0)
    ELSE 0

\* the observations folded so far of paper id as a citation and as a reference:
\* the row of bib_df and the place in its list
CitObs(id) ==
    { <<k, j>> \in (1..Len(bib_df)) \X (1..2) :
        j <= CitsDone(k) /\ bib_df[k].citations[j].paperId = id }
RefObs(id) ==
    { <<k, j>> \in (1..Len(bib_df)) \X (1..2) :
        j <= RefsDone(k) /\ bib_df[k].references[j].paperId = id }

\* the paper of the entry is in one row of the table, observed once, from
\* another row of bib_df
CitAgain ==
    /\ FoldingCit
    /\ CurCit.paperId # None
    /\ PaperIndex(cit_df, CurCit.paperId) # 0
    /\ cit_df[PaperIndex(cit_df, CurCit.paperId)].count = 1
    /\ \A o \in CitObs(CurCit.paperId) : o[1] # row
RefAgain ==
    /\ FoldingRef
    /\ CurRef.paperId # None
    /\ PaperIndex(ref_df, CurRef.paperId) # 0
    /\ ref_df[PaperIndex(ref_df, CurRef.paperId)].count = 1
    /\ \A o \in RefObs(CurRef.paperId) : o[1] # row

\* the years whose bucket is not zero
Incremented(d) == { y \in DOMAIN d : d[y] > 0 }

\* a step changes row at of a table of papers in its count and year buckets
\* (and 'count x cit', which cit_df does not have) and in nothing else
OnlyCounters(old, new, at) ==
    /\ Len(new) = Len(old)
    /\ \A i \in 1..Len(old) : i # at => new[i] = old[i]
    /\ new[at].paperId = old[at].paperId
    /\ new[at].title = old[at].title
    /\ new[at].year = old[at].year
    /\ new[at].authors = old[at].authors
    /\ new[at].inNIME = old[at].inNIME
    /\ new[at].count = 2
    /\ DOMAIN new[at].count_year = DOMAIN old[at].count_year

\* C22 as worded: the second observation of a paper, from another row of
\* bib_df, changes in its table only the count of the row, to 2, its
\* 'count x cit' and its year buckets, and two year buckets are then
\* incremented, one for each observation
C22_TwoBucketsIncremented ==
    [][ /\ CitAgain =>
            LET at == PaperIndex(cit_df, CurCit.paperId)
            IN  /\ OnlyCounters(cit_df, cit_df', at)
                /\ Cardinality(Incremented(cit_df'[at].count_year)) = 2
                /\ ref_df' = ref_df
        /\ RefAgain =>
            LET at == PaperIndex(ref_df, CurRef.paperId)
            IN  /\ OnlyCounters(ref_df, ref_df', at)
                /\ Cardinality(Incremented(ref_df'[at].count_year)) = 2
                /\ cit_df' = cit_df ]_vars

\* the buckets of a row after its second observation, made by a row of bib_df
\* of year y: one more in the bucket of y, so two buckets at 1 when the first
\* observation was made by a row of another year, and one bucket at 2 when it
\* was made by a row of the same year
SecondBucket(old, new, y) ==
    /\ new = Bump(old, y)
    /\ IF old[y] = 1
       THEN Incremented(new) = {y} /\ new[y] = 2
       ELSE Cardinality(Incremented(new)) = 2 /\ \A z \in Incremented(new) : new[z] = 1

\* C22: the second observation of a paper, from another row of bib_df, changes
\* in its table only the count of the row, to 2, its 'count x cit', by the
\* citation count of the observing row, and the bucket of the year of the
\* observing row, by one; the other fields of the row, the other rows and the
\* other table of papers are unchanged
C22_SecondObservationFrame ==
    [][ /\ CitAgain =>
            LET at == PaperIndex(cit_df, CurCit.paperId)
            IN  /\ OnlyCounters(cit_df, cit_df', at)
                /\ SecondBucket(cit_df[at].count_year, cit_df'[at].count_year, Item.year)
                /\ ref_df' = ref_df
        /\ RefAgain =>
            LET at == PaperIndex(ref_df, CurRef.paperId)
            IN  /\ OnlyCounters(ref_df, ref_df', at)
                /\ SecondBucket(ref_df[at].count_year, ref_df'[at].count_year, Item.year)
                /\ ref_df'[at].countXcit = ref_df[at].countXcit + Item.citCount
                /\ cit_df' = cit_df ]_vars

\* a paper observed twice, by two rows of bib_df of the same year and under two
\* titles: one bucket at 2, and the title of the first observation
C22_Witness ==
    \E i \in 1..Len(cit_df) :
        /\ cit_df[i].count = 2
        /\ Cardinality(CitObs(cit_df[i].paperId)) = 2
        /\ \E y \in DOMAIN cit_df[i].count_year : cit_df[i].count_year[y] = 2
        /\ \E o \in CitObs(cit_df[i].paperId) :
              bib_df[o[1]].citations[o[2]].title # cit_df[i].title

\* the paper ids and the author ids of the resolved rows of bib_df
LocalPaperIds == { bib_df[k].paperId : k \in 1..Len(bib_df) } \ {NAId}
LocalAuthorIds ==
    UNION { { bib_df[k].authorsId[j] : j \in 1..Len(bib_df[k].authorsId) } :
              k \in 1..Len(bib_df) } \ {NAId}

\* C23: in the tables the fold ends with, 'in NIME' of a row of cit_df or of
\* ref_df is true exactly when its paper id is the paper id of a row of bib_df,
\* wherever that row is, and 'in NIME' of a row of auth_df is true exactly when
\* its author id is among the author ids of a row of bib_df
C23_FlagsAgainstWholeCorpus ==
    fpc = "done" =>
        /\ \A i \in 1..Len(cit_df) : cit_df[i].inNIME = (cit_df[i].paperId \in LocalPaperIds)
        /\ \A i \in 1..Len(ref_df) : ref_df[i].inNIME = (ref_df[i].paperId \in LocalPaperIds)
        /\ \A i \in 1..Len(auth_df) : auth_df[i].inNIME = (auth_df[i].authorId \in LocalAuthorIds)

\* a citing paper that is the paper of a later row of bib_df than the one that
\* observed it, a referenced paper that is no row's, and an author of both kinds
C23_Witness ==
    /\ fpc = "done"
    /\ \E i \in 1..Len(cit_df) :
          /\ cit_df[i].inNIME
          /\ \E k \in 1..Len(bib_df) :
                /\ bib_df[k].paperId = cit_df[i].paperId
                /\ \A o \in CitObs(cit_df[i].paperId) : o[1] < k
    /\ \E i \in 1..Len(ref_df) : ~ref_df[i].inNIME
    /\ \E i \in 1..Len(auth_df) : auth_df[i].inNIME
    /\ \E i \in 1..Len(auth_df) : ~auth_df[i].inNIME

\* C24: generate_cit_ref_auth_df raises for no bib_df, with or without a row
\* that was not resolved
C24_NeverRaises == fpc # "raised" /\ ferr = ""

\* C25: the fold of an entry whose paper id is None leaves cit_df and ref_df as
\* they are, and the function goes on
C25_NullIdEntrySkipped ==
    [][ ((FoldingCit /\ CurCit.paperId = None) \/ (FoldingRef /\ CurRef.paperId = None)) =>
            /\ cit_df' = cit_df
            /\ ref_df' = ref_df
            /\ fpc' = "fold"
            /\ ferr' = ""
            /\ ent' = ent + 1 ]_vars

\* a citation and a reference without paper id have been folded, after a row
\* was added to each table
C25_Witness ==
    /\ fpc = "done"
    /\ cit_df # <<>> /\ ref_df # <<>>
    /\ \E k \in 1..Len(bib_df) :
          /\ \E j \in 1..Len(bib_df[k].citations) : bib_df[k].citations[j].paperId = None
          /\ \E j \in 1..Len(bib_df[k].references) : bib_df[k].references[j].paperId = None
    /\ \A i \in 1..Len(cit_df) : cit_df[i].paperId # None
    /\ \A i \in 1..Len(ref_df) : ref_df[i].paperId # None

\* the sum of the citation counts of the rows of bib_df that made the
\* observations obs
RECURSIVE CitCountSum(_)
CitCountSum(obs) ==
    IF obs = {} THEN 0
    ELSE LET o == CHOOSE x \in obs : TRUE
         IN  bib_df[o[1]].citCount + CitCountSum(obs \ {o})

\* C26: at every point of the fold, 'count x cit' of every row of ref_df is the
\* sum, over the references to its paper folded so far, of the citation count of
\* the row of bib_df whose reference it is
C26_WeightIsSumOfCitationCounts ==
    fpc \in {"fold", "done"} =>
        \A i \in 1..Len(ref_df) :
            ref_df[i].countXcit = CitCountSum(RefObs(ref_df[i].paperId))

\* in the middle of the fold, a paper referenced by two rows of bib_df of
\* different citation counts
C26_Witness ==
    /\ fpc = "fold"
    /\ row <= Len(bib_df)
    /\ \E i \in 1..Len(ref_df) :
          /\ Cardinality(RefObs(ref_df[i].paperId)) = 2
          /\ ref_df[i].countXcit = 4

\* C27: at every point of the fold, the bucket of year y of every row of cit_df
\* and of ref_df is the number of observations of its paper, folded so far, made
\* by rows of bib_df of year y; the year of the paper itself selects no bucket
C27_BucketIsYearOfObserver ==
    fpc \in {"fold", "done"} =>
        /\ \A i \in 1..Len(cit_df) : \A y \in DOMAIN cit_df[i].count_year :
              cit_df[i].count_year[y] =
                  Cardinality({ o \in CitObs(cit_df[i].paperId) : bib_df[o[1]].year = y })
        /\ \A i \in 1..Len(ref_df) : \A y \in DOMAIN ref_df[i].count_year :
              ref_df[i].count_year[y] =
                  Cardinality({ o \in RefObs(ref_df[i].paperId) : bib_df[o[1]].year = y })

\* a referenced paper whose own year is a year of bib_df and not the year of the
\* row that referred to it: the bucket of its own year is zero
C27_Witness ==
    /\ fpc = "done"
    /\ \E i \in 1..Len(ref_df) :
          /\ ref_df[i].year \in DOMAIN ref_df[i].count_year
          /\ ref_df[i].count_year[ref_df[i].year] = 0
          /\ \E y \in DOMAIN ref_df[i].count_year : ref_df[i].count_year[y] = 1

\* the authors of the entry that the step folds
StepAuthorIds ==
    IF FoldingCit THEN { CurCit.authors[a].authorId : a \in DOMAIN CurCit.authors }
    ELSE IF FoldingRef THEN { CurRef.authors[a].authorId : a \in DOMAIN CurRef.authors }
    ELSE {}

\* the rows, present before the step, of a table of papers whose year buckets
\* the step changes
MovedCit == { i \in 1..Len(cit_df) : cit_df'[i].count_year # cit_df[i].count_year }
MovedRef == { i \in 1..Len(ref_df) : ref_df'[i].count_year # ref_df[i].count_year }

\* C28 as worded: the keys of every per-year counter include every year from the
\* first to the last year of the corpus
C28_KeysCoverYearRange ==
    fpc \in {"fold", "done"} =>
        /\ \A i \in 1..Len(cit_df) : YearRange(bib_df) \subseteq DOMAIN cit_df[i].count_year
        /\ \A i \in 1..Len(ref_df) : YearRange(bib_df) \subseteq DOMAIN ref_df[i].count_year
        /\ \A i \in 1..Len(auth_df) :
              /\ YearRange(bib_df) \subseteq DOMAIN auth_df[i].cit_count_year
              /\ YearRange(bib_df) \subseteq DOMAIN auth_df[i].ref_count_year

\* C28: after every step of the fold the keys of every per-year counter, of the
\* rows of papers and of both counters of the rows of authors, are the years
\* that occur in bib_df and every bucket is a natural number; a row keeps its
\* keys; and the counters are separate: a step changes the buckets of at most
\* one row of each table of papers, and among the rows of authors only of
\* authors of the entry it folds, and then only one of the two counters
C28_CountersKeyedByCorpusYears ==
    [][fpc' \in {"fold", "done"} =>
        /\ \A i \in 1..Len(cit_df') :
              cit_df'[i].count_year \in [Years(bib_df) -> Nat]
        /\ \A i \in 1..Len(ref_df') :
              ref_df'[i].count_year \in [Years(bib_df) -> Nat]
        /\ \A i \in 1..Len(auth_df') :
              /\ auth_df'[i].cit_count_year \in [Years(bib_df) -> Nat]
              /\ auth_df'[i].ref_count_year \in [Years(bib_df) -> Nat]
        /\ Len(cit_df') >= Len(cit_df) /\ Len(ref_df') >= Len(ref_df)
        /\ Len(auth_df') >= Len(auth_df)
        /\ \A i \in 1..Len(cit_df) :
              DOMAIN cit_df'[i].count_year = DOMAIN cit_df[i].count_year
        /\ \A i \in 1..Len(ref_df) :
              DOMAIN ref_df'[i].count_year = DOMAIN ref_df[i].count_year
        /\ \A i \in 1..Len(auth_df) :
              /\ DOMAIN auth_df'[i].cit_count_year = DOMAIN auth_df[i].cit_count_year
              /\ DOMAIN auth_df'[i].ref_count_year = DOMAIN auth_df[i].ref_count_year
        /\ Cardinality(MovedCit) <= 1 /\ Cardinality(MovedRef) <= 1
        /\ \A i \in 1..Len(auth_df) :
              LET cmoved == auth_df'[i].cit_count_year # auth_df[i].cit_count_year
                  rmoved == auth_df'[i].ref_count_year # auth_df[i].ref_count_year
              IN  /\ ~(cmoved /\ rmoved)
                  /\ (cmoved \/ rmoved) => auth_df[i].authorId \in StepAuthorIds
    ]_vars

\* the fold of a corpus whose years leave out a year between them has ended
\* with two rows of referenced papers and a row of an author whose buckets are
\* not all zero in either counter
C28_Witness ==
    /\ fpc = "done"
    /\ YearRange(bib_df) # Years(bib_df)
    /\ Len(ref_df) >= 2
    /\ \E y \in Years(bib_df) : ref_df[1].count_year[y] = 0
    /\ \E i \in 1..Len(auth_df) :
          /\ \E y \in Years(bib_df) : auth_df[i].cit_count_year[y] > 0
          /\ \E y \in Years(bib_df) : auth_df[i].ref_count_year[y] > 0

\* the places, in the citing and in the referenced entries folded so far, that
\* list author id: the row of bib_df, the place of the entry in its list and the
\* place of the author in the entry
AuthCitObs(id) ==
    { o \in (1..Len(bib_df)) \X (1..2) \X (1..2) :
        /\ o[2] <= CitsDone(o[1])
        /\ o[3] <= Len(bib_df[o[1]].citations[o[2]].authors)
        /\ bib_df[o[1]].citations[o[2]].authors[o[3]].authorId = id }
AuthRefObs(id) ==
    { o \in (1..Len(bib_df)) \X (1..2) \X (1..2) :
        /\ o[2] <= RefsDone(o[1])
        /\ o[3] <= Len(bib_df[o[1]].references[o[2]].authors)
        /\ bib_df[o[1]].references[o[2]].authors[o[3]].authorId = id }

\* the author ids, null or not, listed by the entries folded so far
ListedAuthorIds ==
    { bib_df[o[1]].citations[o[2]].authors[o[3]].authorId :
        o \in { p \in (1..Len(bib_df)) \X (1..2) \X (1..2) :
                  /\ p[2] <= CitsDone(p[1])
                  /\ p[3] <= Len(bib_df[p[1]].citations[p[2]].authors) } }
    \cup
    { bib_df[o[1]].references[o[2]].authors[o[3]].authorId :
        o \in { p \in (1..Len(bib_df)) \X (1..2) \X (1..2) :
                  /\ p[2] <= RefsDone(p[1])
                  /\ p[3] <= Len(bib_df[p[1]].references[p[2]].authors) } }

\* the rows of authors hold, for every author id listed so far that is not
\* null, the numbers of its listings
AuthorCountsRight ==
    /\ { auth_df[i].authorId : i \in 1..Len(auth_df) } = ListedAuthorIds \ {None}
    /\ \A i \in 1..Len(auth_df) :
          /\ auth_df[i].cit_count = Cardinality(AuthCitObs(auth_df[i].authorId))
          /\ auth_df[i].ref_count = Cardinality(AuthRefObs(auth_df[i].authorId))

\* what the rows of authors hold of one kind of observation
CitSide(df) == [i \in 1..Len(df) |-> <<df[i].cit_count, df[i].cit_count_year>>]
RefSide(df) == [i \in 1..Len(df) |-> <<df[i].ref_count, df[i].ref_count_year>>]
Untouched(side, old) ==
    /\ \A i \in 1..Len(old) : side[i] = old[i]
    /\ \A i \in (Len(old) + 1)..Len(side) :
          side[i] = <<0, YearsEmptyDict(bib_df)>>

CitAuthorsCounted(e) ==
    \A a \in DOMAIN e.authors :
        LET id == e.authors[a].authorId
            at == AuthorIndex(auth_df, id)
            now == AuthorIndex(auth_df', id)
        IN  id # None =>
              /\ now # 0
              /\ auth_df'[now].cit_count = (IF at # 0 THEN auth_df[at].cit_count + 1 ELSE 1)
RefAuthorsCounted(e) ==
    \A a \in DOMAIN e.authors :
        LET id == e.authors[a].authorId
            at == AuthorIndex(auth_df, id)
            now == AuthorIndex(auth_df', id)
        IN  id # None =>
              /\ now # 0
              /\ auth_df'[now].ref_count = (IF at # 0 THEN auth_df[at].ref_count + 1 ELSE 1)

\* the listings of author id in citing entries, folded so far, that have a
\* paper id, which are the ones the rows of cit_df count
AuthCitObsWithPaper(id) ==
    { o \in AuthCitObs(id) : bib_df[o[1]].citations[o[2]].paperId # None }
AuthRefObsWithPaper(id) ==
    { o \in AuthRefObs(id) : bib_df[o[1]].references[o[2]].paperId # None }

\* C30: folding a citing or a referenced entry whose paper id is null leaves
\* cit_df and ref_df as they were and still adds one to cit_count, or to
\* ref_count, of the row of every author of the entry whose id is not null, the
\* row being inserted when the author had none
C30_NullIdEntryAuthorsCounted ==
    [][/\ (FoldingCit /\ CurCit.paperId = None) =>
             /\ cit_df' = cit_df /\ ref_df' = ref_df
             /\ CitAuthorsCounted(CurCit)
       /\ (FoldingRef /\ CurRef.paperId = None) =>
             /\ cit_df' = cit_df /\ ref_df' = ref_df
             /\ RefAuthorsCounted(CurRef)
    ]_vars

\* the fold has ended with an author whose cit_count is larger than the number
\* of its listings in the entries that the rows of cit_df count, and an author
\* whose only row comes from a referenced entry without a paper id
C30_Witness ==
    /\ fpc = "done"
    /\ \E i \in 1..Len(auth_df) :
          /\ auth_df[i].cit_count = 2
          /\ Cardinality(AuthCitObsWithPaper(auth_df[i].authorId)) = 1
    /\ \E i \in 1..Len(auth_df) :
          /\ auth_df[i].ref_count = 1
          /\ AuthRefObsWithPaper(auth_df[i].authorId) = {}

=============================================================================
